---- MODULE Spec2Model ----
(***************************************************************************)
(* A model of new-post (src/src/main.rs): one run of the command-line      *)
(* tool, from the parsed arguments to the exit of the process.             *)
(*                                                                         *)
(* Strings and paths are sequences of one-character strings, so that       *)
(* replace, split, join and format! are modelled by what they do to the    *)
(* characters.  The element NonUtf8 stands for a byte sequence that is     *)
(* not valid Unicode (it can occur in an OsString, never in a String).     *)
(***************************************************************************)
EXTENDS Naturals, Sequences, FiniteSets, TLC

VARIABLES
    args,           \* Arguments: [title, tags, editor] (main.rs:12-22)
    env,            \* the process environment: [VISUAL, EDITOR]
    fs,             \* what the OS answers to current_dir() and read_dir()
    pc,             \* the statement of main() that runs next
    content_dir,    \* main's content_dir   (Option)
    new_file_path,  \* main's new_file_path (Option)
    editor,         \* main's editor        (Option)
    files,          \* the fs::write calls made: <<[path, contents, ok]>>
    command,        \* the Command handed to spawn(): <<[program, args]>>
    child,          \* the editor process: "none", "running", "exited"
    child_code,     \* the editor's exit code once it exited
    calls,          \* the OS calls made so far, in order
    result          \* what main returned (Option of Result) or "panic"

vars == <<args, env, fs, pc, content_dir, new_file_path, editor, files,
          command, child, child_code, calls, result>>

-----------------------------------------------------------------------------
(* Option and Result *)

None == <<>>
Some(x) == <<x>>

Ok(v) == [ok |-> TRUE, val |-> v, err |-> "", msg |-> ""]
\* Error::from_error wraps an underlying OS error (the spec's IoError),
\* Error::from_string carries a message only (the spec's NotFoundError).
from_error(message) == [ok |-> FALSE, val |-> <<>>, err |-> "IoError", msg |-> message]
from_string(message) == [ok |-> FALSE, val |-> <<>>, err |-> "NotFoundError", msg |-> message]

-----------------------------------------------------------------------------
(* Characters *)

NonUtf8 == "<0xFF>"
Slash == "/"
Space == " "
Quote == "\""

\* OsStr::to_str / String::from_utf8: the value as a String, if it is one
IsUtf8(s) == \A i \in 1..Len(s) : s[i] # NonUtf8

RECURSIVE Concat(_)
\* [String].concat()
Concat(ss) == IF ss = <<>> THEN <<>> ELSE Head(ss) \o Concat(Tail(ss))

RECURSIVE join(_, _)
\* [String].join(sep)
join(ss, sep) ==
    IF ss = <<>> THEN <<>>
    ELSE IF Len(ss) = 1 THEN ss[1]
    ELSE ss[1] \o sep \o join(Tail(ss), sep)

RECURSIVE split(_, _)
\* str::split(c): the pieces between the occurrences of c, empty ones kept
split(s, c) ==
    IF \A i \in 1..Len(s) : s[i] # c THEN <<s>>
    ELSE LET k == CHOOSE i \in 1..Len(s) :
                      s[i] = c /\ \A j \in 1..(i-1) : s[j] # c
         IN <<SubSeq(s, 1, k-1)>> \o split(SubSeq(s, k+1, Len(s)), c)

-----------------------------------------------------------------------------
(* Paths *)

\* Path::join / PathBuf::push: an absolute argument replaces the base;
\* otherwise a separator is added unless the base is empty or ends in one.
PathJoin(base, p) ==
    IF p # <<>> /\ p[1] = Slash THEN p
    ELSE IF base = <<>> \/ base[Len(base)] = Slash THEN base \o p
    ELSE base \o <<Slash>> \o p

RECURSIVE StripTrailingSlashes(_)
StripTrailingSlashes(p) ==
    IF p # <<>> /\ p[Len(p)] = Slash
    THEN StripTrailingSlashes(SubSeq(p, 1, Len(p)-1))
    ELSE p

\* Path::file_name: the final component, unless the path is the root or
\* ends in "..".
file_name(p) ==
    LET q == StripTrailingSlashes(p)
        parts == split(q, Slash)
        last == parts[Len(parts)]
    IN IF last = <<>> \/ last = <<".", ".">> THEN None ELSE Some(last)

-----------------------------------------------------------------------------
(* Literals of the source *)

content_directory_name == <<"c","o","n","t","e","n","t">>
DotMd == <<".","m","d">>
UnsafeChars == {"'", Quote, "(", ")"}

\* Local::now().date().and_time(NaiveTime::default()).to_rfc3339(): local
\* midnight of the day of the run, here 2026-11-04 in UTC.
Today == <<"2","0","2","6","-","1","1","-","0","4","T","0","0",":","0","0",
           ":","0","0","+","0","0",":","0","0">>

-----------------------------------------------------------------------------
(* locate_content_directory *)

\* IsReadDir without the is_dir() test
IsReadDir_AnyKind(c) == c.read /\ c.ftype

\* The filter_map closure: an entry that was read, whose file type could
\* be read, and is a directory.
IsReadDir(c) == c.read /\ c.ftype /\ c.kind = "dir"

\* locate_content_directory listing the children before it looks at the
\* name of the current directory
locate_content_directory_ListFirst(f) ==
    IF ~f.cwd.ok
    THEN [res |-> from_error("Failed to get current working directory"),
          calls |-> <<"current_dir">>]
    ELSE IF ~f.listing.ok
    THEN [res |-> from_error("Failed to get children of current working directory"),
          calls |-> <<"current_dir", "read_dir">>]
    ELSE IF file_name(f.cwd.val) = Some(content_directory_name)
    THEN [res |-> Ok(f.cwd.val), calls |-> <<"current_dir", "read_dir">>]
    ELSE LET dirs == SelectSeq(f.listing.val, IsReadDir)
             found == SelectSeq(dirs, LAMBDA dir : dir.name = content_directory_name)
         IN [res |-> IF found = <<>>
                     THEN from_string("Failed to find a directory named 'content'")
                     ELSE Ok(PathJoin(f.cwd.val, found[1].name)),
             calls |-> <<"current_dir", "read_dir">>]

\* The result, and the OS calls made to get it.
locate_content_directory(f) ==
    IF ~f.cwd.ok
    THEN [res |-> from_error("Failed to get current working directory"),
          calls |-> <<"current_dir">>]
    ELSE IF file_name(f.cwd.val) = Some(content_directory_name)
    THEN [res |-> Ok(f.cwd.val), calls |-> <<"current_dir">>]
    ELSE IF ~f.listing.ok
    THEN [res |-> from_error("Failed to get children of current working directory"),
          calls |-> <<"current_dir", "read_dir">>]
    ELSE LET dirs == SelectSeq(f.listing.val, IsReadDir)
             found == SelectSeq(dirs, LAMBDA dir : dir.name = content_directory_name)
         IN [res |-> IF found = <<>>
                     THEN from_string("Failed to find a directory named 'content'")
                     ELSE Ok(PathJoin(f.cwd.val, found[1].name)),
             calls |-> <<"current_dir", "read_dir">>]

-----------------------------------------------------------------------------
(* create_safe_file_name *)

\* create_safe_file_name with the parentheses left out of the pattern
create_safe_file_name_KeepParens(title) ==
    SelectSeq(title, LAMBDA c : c \notin {"'", Quote})

\* str::replace(&[chars], ""): every occurrence of each character removed
create_safe_file_name(title) ==
    SelectSeq(title, LAMBDA c : c \notin UnsafeChars)

\* main.rs:34
NewFilePath(dir, title) == PathJoin(dir, create_safe_file_name(title) \o DotMd)

-----------------------------------------------------------------------------
(* write_file_contents *)

\* format!(r#""{}""#, s)
QuoteTag(s) == <<Quote>> \o s \o <<Quote>>

\* RenderTags joining with a comma alone
RenderTags_CommaOnly(tags) ==
    join([i \in 1..Len(tags) |-> QuoteTag(tags[i])], <<",">>)

\* tags.iter().map(..).collect::<Vec<_>>().join(", ")
RenderTags(tags) ==
    join([i \in 1..Len(tags) |-> QuoteTag(tags[i])], <<",", Space>>)

\* the format! of lines 86-101
FileContents(title, date, tags) ==
    Concat(<< <<"+","+","+","\n">>,
              <<"t","i","t","l","e",Space,"=",Space,Quote>>, title, <<Quote,"\n">>,
              <<"d","a","t","e",Space,"=",Space>>, date, <<"\n">>,
              <<"[","t","a","x","o","n","o","m","i","e","s","]","\n">>,
              <<"t","a","g","s",Space,"=",Space,"[">>, RenderTags(tags), <<"]","\n">>,
              <<"+","+","+","\n">> >>)

-----------------------------------------------------------------------------
(* get_editor_command_string *)

\* env::var(name): the value, unless the variable is unset or its value is
\* not valid Unicode.
env_var(e, name) ==
    IF e[name] = None THEN [ok |-> FALSE, val |-> <<>>, err |-> "NotPresent", msg |-> ""]
    ELSE IF ~IsUtf8(e[name][1]) THEN [ok |-> FALSE, val |-> <<>>, err |-> "NotUnicode", msg |-> ""]
    ELSE Ok(e[name][1])

\* get_editor_command_string asking for EDITOR before VISUAL
get_editor_command_string_EditorFirst(editor_path, e) ==
    IF editor_path # None THEN Ok(editor_path[1])
    ELSE IF env_var(e, "EDITOR").ok THEN env_var(e, "EDITOR")
    ELSE IF env_var(e, "VISUAL").ok THEN env_var(e, "VISUAL")
    ELSE from_string("Unable to find a valid path to an editor")

get_editor_command_string(editor_path, e) ==
    IF editor_path # None THEN Ok(editor_path[1])
    ELSE IF env_var(e, "VISUAL").ok THEN env_var(e, "VISUAL")
    ELSE IF env_var(e, "EDITOR").ok THEN env_var(e, "EDITOR")
    ELSE from_string("Unable to find a valid path to an editor")

-----------------------------------------------------------------------------
(* run_editor *)

\* editor_args adding the path to the string before it is split
editor_args_SplitPath(ed, file_path) == split(ed \o <<Space>> \o file_path, Space)

\* lines 123-129: the pieces of the command, then the path
editor_args(ed, file_path) == split(ed, Space) \o <<file_path>>

\* lines 131-132: Command::new(editor_args[0]).args(editor_args.iter().skip(1))
Command(ed, file_path) ==
    [program |-> editor_args(ed, file_path)[1],
     args |-> Tail(editor_args(ed, file_path))]

-----------------------------------------------------------------------------
(* Inputs of a run *)

MaxTitleLen == 3
MaxTags == 2
MaxCmdLen == 3
MaxEntries == 2

\* the strings over S of length at most n
Strings(S, n) == UNION {[1..k -> S] : k \in 0..n}

TitleChars == {"a", Slash, "'", Quote, "(", ")"}
Titles == Strings(TitleChars, MaxTitleLen)

TagSet == { <<>>, <<"a">>, <<"b">>, <<Quote>>, <<",", Space>>,
            <<"a", Quote, ",", Space, Quote, "b">> }
TagSeqs == Strings(TagSet, MaxTags)

CmdStrings == Strings({"v", Space}, MaxCmdLen)

\* a variable of the environment: unset, or set to an OsString
EnvValues(S) == {None} \cup {Some(v) : v \in S}

ExitCodes == {0, 1}

\* A child of the current directory, as read_dir yields it: `read` is
\* whether the entry itself was read (c is Ok), `ftype` whether file_type()
\* succeeds on it, `nested` whether it holds a subdirectory named content.
EntryNames == {content_directory_name, <<"x">>, <<"C","o","n","t","e","n","t">>}
Entries ==
    {c \in [name : EntryNames, kind : {"dir", "file"}, read : BOOLEAN,
            ftype : BOOLEAN, nested : BOOLEAN] :
        /\ ~c.read => c.ftype
        /\ c.nested => (c.kind = "dir" /\ c.name = <<"x">>)
        /\ c.name = <<"C","o","n","t","e","n","t">> => (c.read /\ c.ftype)}

\* the listings of a directory: its children have different names
Listings ==
    {l \in Strings(Entries, MaxEntries) :
        \A i, j \in 1..Len(l) : i # j => l[i].name # l[j].name}

CwdPaths == { <<Slash>> \o content_directory_name,
              <<Slash, "w", Slash>> \o content_directory_name,
              <<Slash, "w">>,
              <<Slash>> \o content_directory_name \o <<Slash, "w">>,
              <<Slash>>,
              <<Slash, NonUtf8>> }

\* every answer of the OS to current_dir() and read_dir()
FsAll ==
    [cwd : {from_error("current_dir")} \cup {Ok(p) : p \in CwdPaths},
     listing : {from_error("read_dir")} \cup {Ok(l) : l \in Listings}]

ContentDirEntry ==
    [name |-> content_directory_name, kind |-> "dir", read |-> TRUE,
     ftype |-> TRUE, nested |-> FALSE]

\* a few of them: in content, beside content, no content, nothing readable
FsFew ==
    { [cwd |-> Ok(<<Slash>> \o content_directory_name), listing |-> Ok(<<>>)],
      [cwd |-> Ok(<<Slash, "w">>), listing |-> Ok(<<ContentDirEntry>>)],
      [cwd |-> Ok(<<Slash, "w">>), listing |-> Ok(<<>>)],
      [cwd |-> Ok(<<Slash, "w">>), listing |-> from_error("read_dir")],
      [cwd |-> Ok(<<Slash, NonUtf8>>), listing |-> Ok(<<ContentDirEntry>>)],
      [cwd |-> from_error("current_dir"), listing |-> Ok(<<>>)] }

-----------------------------------------------------------------------------
(* main *)

\* The process's exit status: 0 when main returns Ok, 1 when it returns an
\* Err, 101 when it panics.
ExitStatus(r) == IF r.ok THEN 0 ELSE IF r.err = "panic" THEN 101 ELSE 1

Panic(message) == [ok |-> FALSE, val |-> <<>>, err |-> "panic", msg |-> message]

\* `?` on an Err: main returns it.
Return(r) ==
    /\ result' = Some(r)
    /\ pc' = "exit"

\* line 32: let content_dir = locate_content_directory()?;
Locate ==
    /\ pc = "locate"
    /\ LET r == locate_content_directory(fs) IN
         /\ calls' = calls \o r.calls
         /\ IF r.res.ok
            THEN /\ content_dir' = Some(r.res.val)
                 /\ pc' = "path"
                 /\ UNCHANGED result
            ELSE /\ Return(r.res)
                 /\ UNCHANGED content_dir
    /\ UNCHANGED <<args, env, fs, new_file_path, editor, files, command,
                   child, child_code>>

\* line 34: let new_file_path = content_dir.join(format!("{}.md", ...));
BuildPath ==
    /\ pc = "path"
    /\ new_file_path' = Some(NewFilePath(content_dir[1], args.title))
    /\ pc' = "write"
    /\ UNCHANGED <<args, env, fs, content_dir, editor, files, command,
                   child, child_code, calls, result>>

\* lines 80-106.  The fs::write of line 103 names new_file_path, the path
\* main built, which is also the value main passes as file_path.
write_file_contents(title, date, tags, file_path, oserr) ==
    [path |-> new_file_path[1],
     contents |-> FileContents(title, date, tags),
     ok |-> ~oserr]

\* WriteFile without the `?`: the run goes on after a failed write
WriteFile_IgnoreError ==
    /\ pc = "write"
    /\ \E oserr \in BOOLEAN :
         /\ files' = Append(files, write_file_contents(args.title, Today,
                                       args.tags, new_file_path[1], oserr))
         /\ calls' = Append(calls, "write")
    /\ pc' = "editor"
    /\ UNCHANGED <<args, env, fs, content_dir, new_file_path, editor,
                   command, child, child_code, result>>

\* line 36: write_file_contents(&args.title, today, args.tags, path)?;
WriteFile ==
    /\ pc = "write"
    /\ \E oserr \in BOOLEAN :
         LET w == write_file_contents(args.title, Today, args.tags,
                                      new_file_path[1], oserr) IN
           /\ files' = Append(files, w)
           /\ calls' = Append(calls, "write")
           /\ IF w.ok
              THEN pc' = "editor" /\ UNCHANGED result
              ELSE Return(from_error("Failed to create file"))
    /\ UNCHANGED <<args, env, fs, content_dir, new_file_path, editor,
                   command, child, child_code>>

\* line 38: let editor = get_editor_command_string(args.editor)?;
GetEditor ==
    /\ pc = "editor"
    /\ LET r == get_editor_command_string(args.editor, env) IN
         IF r.ok
         THEN editor' = Some(r.val) /\ pc' = "spawn" /\ UNCHANGED result
         ELSE Return(r) /\ UNCHANGED editor
    /\ UNCHANGED <<args, env, fs, content_dir, new_file_path, files,
                   command, child, child_code, calls>>

\* line 40, run_editor lines 123-137: build the command and spawn it.  The
\* expect of line 128 panics on a path that is not valid Unicode.
Spawn ==
    /\ pc = "spawn"
    /\ IF ~IsUtf8(new_file_path[1])
       THEN /\ Return(Panic("path with no trixie characters"))
            /\ UNCHANGED <<command, child, calls>>
       ELSE /\ command' = Some(Command(editor[1], new_file_path[1]))
            /\ calls' = Append(calls, "spawn")
            /\ \E oserr \in BOOLEAN :
                 IF oserr
                 THEN /\ Return(from_error("Failed to start editor process"))
                      /\ UNCHANGED child
                 ELSE /\ child' = "running"
                      /\ pc' = "wait"
                      /\ UNCHANGED result
    /\ UNCHANGED <<args, env, fs, content_dir, new_file_path, editor, files,
                   child_code>>

\* run_editor lines 136-139 and main line 43.  The Child that spawn()
\* returned was dropped by .map(|_| ()) on line 136 (dropping a Child
\* neither kills nor waits for the process), so the value .wait() is applied
\* to on line 138 is the unit value: there is no process for it to block
\* on, and the run goes on to Ok(()) whether or not the editor has exited.
Wait ==
    /\ pc = "wait"
    /\ Return(Ok(<<>>))
    /\ UNCHANGED <<args, env, fs, content_dir, new_file_path, editor, files,
                   command, child, child_code, calls>>

\* The editor process ends, with any exit code, when it likes.
ChildExit ==
    /\ child = "running"
    /\ \E code \in ExitCodes :
         /\ child' = "exited"
         /\ child_code' = Some(code)
    /\ UNCHANGED <<args, env, fs, pc, content_dir, new_file_path, editor,
                   files, command, calls, result>>

Next == Locate \/ BuildPath \/ WriteFile \/ GetEditor \/ Spawn \/ Wait \/ ChildExit

-----------------------------------------------------------------------------
(* Specifications: the same program, started on different sets of inputs *)

\* the state when main has parsed its arguments (line 25)
InitWith(T, G, E, V, D, F) ==
    /\ args \in [title : T, tags : G, editor : E]
    /\ env \in [VISUAL : V, EDITOR : D]
    /\ fs \in F
    /\ pc = "locate"
    /\ content_dir = None
    /\ new_file_path = None
    /\ editor = None
    /\ files = <<>>
    /\ command = None
    /\ child = "none"
    /\ child_code = None
    /\ calls = <<>>
    /\ result = None

\* a few values of every input
Init ==
    InitWith({<<"a">>, <<Slash, "a">>, <<"a", Space, "b">>, <<"(", "a", ")">>},
             {<<>>, << <<"a">> >>},
             EnvValues({<<"v">>}),
             EnvValues({<<"n">>}),
             EnvValues({<<"e">>}),
             FsFew)
Spec == Init /\ [][Next]_vars

\* every title
InitTitle ==
    InitWith(Titles, {<< <<"a">> >>}, {None}, EnvValues({<<"n">>}), {None},
             {f \in FsFew : f.cwd.ok /\ f.listing.ok /\ IsUtf8(f.cwd.val)})
SpecTitle == InitTitle /\ [][Next]_vars

\* every sequence of tags
InitTags ==
    InitWith({<<"a">>, <<Quote, "(", "'", ")">>}, TagSeqs, {None},
             EnvValues({<<"n">>}), {None},
             {f \in FsFew : f.cwd.ok /\ f.listing.ok /\ IsUtf8(f.cwd.val)})
SpecTags == InitTags /\ [][Next]_vars

\* every editor command, from the flag and from the environment
InitEditor ==
    InitWith({<<"a">>, <<"a", Space, "b">>}, {<<>>},
             EnvValues(CmdStrings),
             EnvValues({<<>>, <<"n">>, <<"n", Space, "w">>, <<NonUtf8>>}),
             EnvValues({<<>>, <<"e">>, <<NonUtf8>>}),
             {f \in FsFew : f.cwd.ok /\ f.listing.ok /\ IsUtf8(f.cwd.val)
                            /\ f.listing.val # <<>>})
SpecEditor == InitEditor /\ [][Next]_vars

\* every directory
InitLocate ==
    InitWith({<<"a">>}, {<<>>}, {Some(<<"v">>)}, {None}, {None}, FsAll)
SpecLocate == InitLocate /\ [][Next]_vars

-----------------------------------------------------------------------------
(* Editor resolution *)

NoEditorFound == Some(from_string("Unable to find a valid path to an editor"))

\* get_editor_command_string has returned
Resolved == editor # None \/ result = NoEditorFound

\* C1 as stated: the flag if present; otherwise VISUAL if it is set;
\* otherwise EDITOR if it is set; a NotFoundError only when the flag is
\* absent and both variables are unset.
C1_AnySetVariable ==
    Resolved =>
      /\ args.editor # None => editor = args.editor
      /\ (args.editor = None /\ env.VISUAL # None) => editor = env.VISUAL
      /\ (args.editor = None /\ env.VISUAL = None /\ env.EDITOR # None)
            => editor = env.EDITOR
      /\ result = NoEditorFound
            <=> (args.editor = None /\ env.VISUAL = None /\ env.EDITOR = None)

\* a variable that is set to valid Unicode
Usable(v) == v # None /\ \A i \in 1..Len(v[1]) : v[1][i] # NonUtf8

\* C1, amended: the flag if present; otherwise VISUAL if it is set to valid
\* Unicode; otherwise EDITOR if it is set to valid Unicode; a NotFoundError
\* exactly when the flag is absent and neither variable is set to valid
\* Unicode.
C1_EditorPrecedence ==
    Resolved =>
      /\ args.editor # None => editor = args.editor
      /\ (args.editor = None /\ Usable(env.VISUAL)) => editor = env.VISUAL
      /\ (args.editor = None /\ ~Usable(env.VISUAL) /\ Usable(env.EDITOR))
            => editor = env.EDITOR
      /\ result = NoEditorFound
            <=> (args.editor = None /\ ~Usable(env.VISUAL) /\ ~Usable(env.EDITOR))
      /\ result = NoEditorFound => result[1].err = "NotFoundError"

\* VISUAL is set but not Unicode, and EDITOR is what was resolved
C1_Witness ==
    /\ args.editor = None
    /\ env.VISUAL = Some(<<NonUtf8>>)
    /\ env.EDITOR = Some(<<"e">>)
    /\ editor = Some(<<"e">>)

-----------------------------------------------------------------------------
(* The sanitized file name *)

RECURSIVE Deleted(_)
\* t with the characters ' " ( ) deleted, the others kept in order
Deleted(t) ==
    IF t = <<>> THEN <<>>
    ELSE IF Head(t) \in {"'", "\"", "(", ")"} THEN Deleted(Tail(t))
    ELSE <<Head(t)>> \o Deleted(Tail(t))

\* the last n characters of s
Suffix(s, n) == SubSeq(s, Len(s) - n + 1, Len(s))

\* C2: the file name in the path main builds is the title with exactly the
\* characters ' " ( ) deleted, followed by .md: none of the four is left,
\* every other character is kept in order, nothing is inserted.
C2_SafeFileName ==
    new_file_path # None =>
      LET path == new_file_path[1]
          name == Deleted(args.title) \o <<".", "m", "d">>
      IN /\ \A i \in 1..Len(path) : path[i] \notin {"'", "\"", "(", ")"}
         /\ Len(path) >= Len(name)
         /\ Suffix(path, Len(name)) = name
         /\ Len(path) <= Len(content_dir[1]) + 1 + Len(name)

\* a title with an unsafe character on either side of a kept one
C2_Witness ==
    /\ args.title = <<"(", "a", ")">>
    /\ new_file_path # None
    /\ Suffix(new_file_path[1], 5) = <<Slash, "a", ".", "m", "d">>

-----------------------------------------------------------------------------
(* The Locator *)

SlashContent == <<"/", "c", "o", "n", "t", "e", "n", "t">>

\* the current directory was read and its own name is content
CwdIsContent ==
    /\ fs.cwd.ok
    /\ Len(fs.cwd.val) >= Len(SlashContent)
    /\ Suffix(fs.cwd.val, Len(SlashContent)) = SlashContent

\* locate_content_directory has returned
Located == pc # "locate"

\* C3: in a directory named content the Locator returns that directory and
\* never lists its children, whatever they are and whether or not the
\* listing would fail.
C3_InContentNoListing ==
    (Located /\ CwdIsContent) =>
      /\ content_dir = Some(fs.cwd.val)
      /\ \A i \in 1..Len(calls) : calls[i] # "read_dir"

\* in content, with a listing that would fail
C3_Witness ==
    /\ CwdIsContent
    /\ ~fs.listing.ok
    /\ content_dir = Some(fs.cwd.val)

\* the path of the child named content of directory d
ChildContent(d) == IF d = <<"/">> THEN SlashContent ELSE d \o SlashContent

ListingFailed ==
    Some(from_error("Failed to get children of current working directory"))
ContentNotFound ==
    Some(from_string("Failed to find a directory named 'content'"))

\* C4 as stated: outside content the Locator succeeds exactly when an
\* immediate child exists that is a directory named content, and returns
\* its path; otherwise it fails with a NotFoundError, or with an IoError
\* when the listing cannot be read.
C4_AnyContentChild ==
    (Located /\ fs.cwd.ok /\ ~CwdIsContent) =>
      IF ~fs.listing.ok THEN result = ListingFailed /\ content_dir = None
      ELSE IF \E i \in 1..Len(fs.listing.val) :
                 /\ fs.listing.val[i].kind = "dir"
                 /\ fs.listing.val[i].name = Tail(SlashContent)
           THEN content_dir = Some(ChildContent(fs.cwd.val))
           ELSE result = ContentNotFound /\ content_dir = None

\* C4, amended: outside content the Locator succeeds exactly when the
\* listing yields an entry that was read without error, whose file type
\* could be read, that is a directory and is named exactly content, and
\* returns that child's path; entries that fail to read or whose type
\* cannot be read are skipped, a non-directory named content is never
\* selected, nested and parent directories are never searched; with no
\* such entry the Locator fails with a NotFoundError, and with an IoError
\* when the listing cannot be read.
C4_ReadableContentChild ==
    (Located /\ fs.cwd.ok /\ ~CwdIsContent) =>
      IF ~fs.listing.ok
      THEN /\ result = ListingFailed
           /\ result[1].err = "IoError"
           /\ content_dir = None
      ELSE IF \E i \in 1..Len(fs.listing.val) :
                 /\ fs.listing.val[i].read
                 /\ fs.listing.val[i].ftype
                 /\ fs.listing.val[i].kind = "dir"
                 /\ fs.listing.val[i].name = Tail(SlashContent)
           THEN content_dir = Some(ChildContent(fs.cwd.val))
           ELSE /\ result = ContentNotFound
                /\ result[1].err = "NotFoundError"
                /\ content_dir = None

\* below a directory named content, beside a file named content and a
\* directory that holds a nested content: nothing is found
C4_Witness ==
    /\ fs.cwd = Ok(SlashContent \o <<"/", "w">>)
    /\ fs.listing.ok
    /\ Len(fs.listing.val) = 2
    /\ fs.listing.val[1].name = Tail(SlashContent)
    /\ fs.listing.val[1].kind = "file"
    /\ fs.listing.val[2].nested
    /\ result = ContentNotFound

-----------------------------------------------------------------------------
(* The editor process *)

\* C5: the run never reaches its successful end while the editor it
\* spawned is still running.
C5_BlocksUntilChildExits ==
    (pc = "exit" /\ result = Some(Ok(<<>>))) => child = "exited"

-----------------------------------------------------------------------------
(* The written file *)

\* C6: re-parsing the rendered tags line recovers the tags.  Whatever the
\* parser, that needs the line to determine the sequence: no other sequence
\* of tags renders to the line that was written.
C6_TagsRoundTrip ==
    files # <<>> =>
      \A t \in TagSeqs :
         <<"t","a","g","s"," ","="," ","[">> \o RenderTags(t) \o <<"]">>
              = split(files[1].contents, "\n")[5]
            => t = args.tags

\* C7: the only file written is <content_directory>/<sanitized_title>.md,
\* and it is the path passed to the editor as its last argument.
C7_OnlyFileInContentDir ==
    /\ Len(files) <= 1
    /\ \A i \in 1..Len(files) :
          files[i].path = content_dir[1] \o <<"/">> \o Deleted(args.title)
                             \o <<".", "m", "d">>
    /\ command # None =>
          /\ Len(files) = 1
          /\ command[1].args[Len(command[1].args)] = files[1].path

-----------------------------------------------------------------------------
(* The order of the run *)

LocateFailures ==
    { Some(from_error("Failed to get current working directory")),
      ListingFailed, ContentNotFound }
WriteFailed == Some(from_error("Failed to create file"))
SpawnFailed == Some(from_error("Failed to start editor process"))

\* the place of an OS call in the order locate, write, spawn
Rank(call) ==
    CASE call = "current_dir" -> 1
      [] call = "read_dir" -> 2
      [] call = "write" -> 3
      [] call = "spawn" -> 4

\* C8: the run is one forward pass, locate, write the file, resolve the
\* editor, spawn the editor, and the first error ends it with failure
\* status: a failed Locator leaves no file written and no editor resolved
\* or spawned, a failed write leaves no editor resolved or spawned, and a
\* run that fails for want of an editor or at the spawn has already created
\* the file and reports that one failure.  Once main has returned, it does
\* nothing more.
C8_ForwardPassFirstError ==
    /\ [](/\ \A i, j \in 1..Len(calls) : i < j => Rank(calls[i]) < Rank(calls[j])
          /\ editor # None => (Len(files) = 1 /\ files[1].ok)
          /\ command # None => editor # None
          /\ child # "none" => command # None
          /\ result \in LocateFailures =>
                (files = <<>> /\ editor = None /\ command = None /\ child = "none")
          /\ (files # <<>> /\ ~files[1].ok) =>
                (result = WriteFailed /\ editor = None /\ command = None
                    /\ child = "none")
          /\ result = WriteFailed => (files # <<>> /\ ~files[1].ok)
          /\ result \in {NoEditorFound, SpawnFailed} =>
                (Len(files) = 1 /\ files[1].ok /\ child = "none")
          /\ result = NoEditorFound => command = None
          /\ (result # None /\ ~result[1].ok) =>
                (pc = "exit" /\ ExitStatus(result[1]) # 0)
          /\ (result # None /\ result[1].ok) =>
                (pc = "exit" /\ ExitStatus(result[1]) = 0 /\ child # "none"))
    /\ [][result # None =>
            (/\ result' = result
             /\ files' = files
             /\ editor' = editor
             /\ command' = command
             /\ calls' = calls)]_vars

\* the spawn failed after the file was created
C8_Witness ==
    /\ result = SpawnFailed
    /\ Len(files) = 1
    /\ files[1].ok
    /\ calls = <<"current_dir", "read_dir", "write", "spawn">>

-----------------------------------------------------------------------------
(* The spawned command *)

\* C9: the spawned command is the resolved string cut at every single
\* space, empty pieces kept: the first piece is the program, the others are
\* its arguments in order, and the path of the new file follows them as one
\* last argument, spaces and all.
C9_SplitOnSingleSpaces ==
    command # None =>
      LET cmdargs == command[1].args
          pieces == <<command[1].program>> \o SubSeq(cmdargs, 1, Len(cmdargs) - 1)
          spaces == {i \in 1..Len(editor[1]) : editor[1][i] = " "}
      IN /\ Len(cmdargs) >= 1
         /\ cmdargs[Len(cmdargs)] = new_file_path[1]
         /\ Len(pieces) = Cardinality(spaces) + 1
         /\ \A k \in 1..Len(pieces) : \A i \in 1..Len(pieces[k]) : pieces[k][i] # " "
         /\ join(pieces, <<" ">>) = editor[1]

\* two spaces in a row give an empty argument, and the path holds a space
C9_Witness ==
    /\ command # None
    /\ editor = Some(<<"v", " ", " ">>)
    /\ command[1].args = << <<>>, <<>>, new_file_path[1] >>
    /\ \E i \in 1..Len(new_file_path[1]) : new_file_path[1][i] = " "

-----------------------------------------------------------------------------
(* The rendered document *)

RECURSIVE QuotedList(_)
\* each tag between double quotes, a comma and a space between two tags
QuotedList(tags) ==
    IF tags = <<>> THEN <<>>
    ELSE <<"\"">> \o Head(tags) \o <<"\"">>
         \o (IF Tail(tags) = <<>> THEN <<>> ELSE <<",", " ">>)
         \o QuotedList(Tail(tags))

\* C10: the document carries the raw title between double quotes (the
\* characters ' " ( ) still in it, unescaped), each tag between double
\* quotes, the tags joined by a comma and a space in their order, and no
\* tags render as `tags = []`.
C10_RawTitleQuotedTags ==
    files # <<>> =>
      LET lines == split(files[1].contents, "\n") IN
        /\ Len(lines) = 7
        /\ lines[2] = <<"t","i","t","l","e"," ","="," ","\"">> \o args.title \o <<"\"">>
        /\ lines[5] = <<"t","a","g","s"," ","="," ","[">> \o QuotedList(args.tags) \o <<"]">>
        /\ args.tags = <<>> => lines[5] = <<"t","a","g","s"," ","="," ","[","]">>

\* a title of unsafe characters only, kept in the document and gone from
\* the file name, with two tags
C10_Witness ==
    /\ files # <<>>
    /\ args.title = <<"\"", "(", "'", ")">>
    /\ Suffix(files[1].path, 4) = <<"/", ".", "m", "d">>
    /\ args.tags = << <<"a">>, <<"b">> >>

====
